---- MODULE Spec2Model ----
(***************************************************************************)
(* Model of src/src/vless/checker.py: the VLESSChecker prober              *)
(* (check_latency, measure_speed, check_servers) as a set of cooperative   *)
(* asyncio tasks, one per descriptor, joined by asyncio.gather.            *)
(*                                                                         *)
(* Descriptors are objects: `heap` maps an object id to its fields and the *)
(* input list `configs` is a sequence of object ids.  Times are integers   *)
(* (milliseconds), speed_mbps is kept in hundredths of MB/s (the code      *)
(* rounds to 2 decimals), byte counts are kept in KiB.                     *)
(*                                                                         *)
(* Spec is the prober called any number of times on the same descriptors,  *)
(* BatchSpec one call on fresh descriptors under fair scheduling, PipeSpec *)
(* the result pipeline (filter_servers, the ranking, save_results),        *)
(* ParseSpec the text import (parse_servers) and AppSpec the window's      *)
(* start_check handler driving the prober.                                 *)
(***************************************************************************)
EXTENDS Integers, Sequences, FiniteSets, TLC

\* ------------------------------------------------------------------ bounds
MaxConfigs == 2
MaxResults == 3      \* longest list handed to the result pipeline

\* --------------------------------------------------------------- constants
Statuses == {"unknown", "ok", "unreachable", "timeout", "error"}

\* values the environment can produce
Latencies == {50}                         \* measured connect time, ms
Payloads  == { [kib |-> 1024, elapsed |-> 500],
               [kib |-> 1024, elapsed |-> 0] }   \* body size, wall time of GET+read

Objs == 1..MaxConfigs

\* what a slot of gather's result list holds when it is not a VLESSConfig
Pending == 0
ExceptionResult == -1

\* self.test_url, the one resource every GET asks for
test_url == "https://speed.cloudflare.com/__down?bytes=1048576"

\* the measured fields of a VLESSConfig
Measured == {"status", "latency_ms", "speed_mbps"}

\* no ClientSession yet
NoSession == 0

VARIABLES
  heap,      \* object id -> VLESSConfig fields
  configs,   \* the list passed to check_servers (object ids)
  callback,  \* progress_callback of the running call: "none" or "sink"
  pc,        \* check_servers: "idle" | "gathering" | "returned"
  tpc,       \* per task: position inside measure_speed / check_latency
  latency,   \* per task: local `latency` of check_latency
  io,        \* per task: what the peer of the pending await will do
  how,       \* per task: the event by which the task left measure_speed
  tres,      \* per task: the slot of asyncio.gather's result list
  results,   \* the list check_servers returned
  writes,    \* per descriptor: assignments to each measured field in this call
  sink_calls,\* per task: calls of progress_callback
  conn,      \* per task: the raw connection of check_latency
  using,     \* per task: the ClientSession it opened (NoSession before)
  session,   \* per ClientSession: "none" | "open" | "closed"
  target,    \* per task: the URL of the GET it issued ("none" before)
  p_op,      \* result pipeline: the operation last applied
  p_in,      \* result pipeline: the list handed to the operation
  p_max,     \* result pipeline: max_speed_mbps (None when absent)
  p_min,     \* result pipeline: min_speed_mbps (None when absent)
  p_out,     \* result pipeline: the list the operation returned
  p_json,    \* result pipeline: the records of <prefix>.json
  p_txt,     \* result pipeline: the blocks of <prefix>.txt
  app        \* the application window: a record of its fields (see NewApp)

\* the state of the result pipeline (filter_servers, save_results, ranking)
pipe == <<p_op, p_in, p_max, p_min, p_out, p_json, p_txt>>

\* the state of the prober
prober == <<heap, configs, callback, pc, tpc, latency, io, how, tres, results,
            writes, sink_calls, conn, using, session, target>>

vars == <<prober, pipe, app>>

\* VLESSConfig(server, server_port, uuid, server_name, path, tag=...) with the
\* dataclass defaults of the measured fields
VLESSConfig(server, server_port, uuid, server_name, path, tag) ==
  [server |-> server, server_port |-> server_port, uuid |-> uuid,
   server_name |-> server_name, path |-> path, tag |-> tag,
   speed_mbps |-> 0, latency_ms |-> 0, status |-> "unknown"]

\* the fields measure_speed is not meant to touch
Identity == {"server", "server_port", "uuid", "server_name", "path", "tag"}

\* f"Server-{i+1}" for the i-th pair of enumerate(servers), counted from 1 here
Tag(k) == <<"Server-", ToString(k)>>

\* the descriptor a caller of check_servers holds as object o
Descriptor(o) ==
  VLESSConfig(<<"h", ToString(o)>>, 443, <<"u">>, <<"s", "n">>, <<"/">>, Tag(o))

\* round(x, 2) of a non-negative quotient num/den, in hundredths
Round2(num, den) == (2 * num + den) \div (2 * den)

\* (bytes_received / (1024 * 1024)) / elapsed_time, rounded to 2 decimals
SpeedMbps(kib, elapsed) == Round2(kib * 100 * 1000, 1024 * elapsed)

Tasks == 1..Len(configs)

Finished == {"returned", "raised"}

\* an absent Optional[float]
None == -1

\* the prober before any call
ProberInit ==
  /\ heap = [o \in Objs |-> Descriptor(o)]
  /\ configs = << >>
  /\ callback = "none"
  /\ pc = "idle"
  /\ tpc = [o \in Objs |-> "idle"]
  /\ latency = [o \in Objs |-> 0]
  /\ io = [o \in Objs |-> "none"]
  /\ how = [o \in Objs |-> "none"]
  /\ tres = [o \in Objs |-> Pending]
  /\ results = << >>
  /\ writes = [o \in Objs |-> [f \in Measured |-> 0]]
  /\ sink_calls = [o \in Objs |-> 0]
  /\ conn = [o \in Objs |-> "none"]
  /\ using = [o \in Objs |-> NoSession]
  /\ session = [o \in Objs |-> "none"]
  /\ target = [o \in Objs |-> "none"]

\* the window as VLESSCheckerApp.__init__ builds it
NewApp ==
  [ servers_input     |-> << >>,            \* text of the IP:Port field
    timeout_input     |-> <<"1", "0">>,     \* text of the timeout field
    max_speed_input   |-> <<"1", ".", "5">>,\* text of the upper speed bound field
    min_speed_input   |-> <<"0">>,          \* text of the lower speed bound field
    servers           |-> << >>,            \* what parse_servers returned last
    handler           |-> "idle",           \* start_check: idle, awaiting, raised
    check_btn         |-> FALSE,            \* check_btn.disabled
    progress_bar      |-> FALSE,            \* progress_bar.visible
    save_all_btn      |-> TRUE,             \* save_all_btn.disabled
    save_filtered_btn |-> TRUE,             \* save_filtered_btn.disabled
    app_results       |-> << >>,            \* self.results
    checker           |-> None,             \* self.checker: None or its timeout
    dialog            |-> "none",           \* the open dialog
    shown             |-> << >>,            \* the list handed to display_results
    event             |-> "none",           \* the handler the window ran last
    content           |-> << >>,            \* f.read() of the picked text file
    lines             |-> << >> ]           \* the lines that text was written from

servers_input == app.servers_input
timeout_input == app.timeout_input
max_speed_input == app.max_speed_input
min_speed_input == app.min_speed_input
servers == app.servers
handler == app.handler
check_btn == app.check_btn
progress_bar == app.progress_bar
save_all_btn == app.save_all_btn
save_filtered_btn == app.save_filtered_btn
app_results == app.app_results
checker == app.checker
dialog == app.dialog
shown == app.shown
event == app.event
content == app.content
lines == app.lines

\* the window right after construction
AppIdle == app = NewApp

\* the result pipeline before any call
PipeIdle ==
  /\ p_op = "none"
  /\ p_in = << >>
  /\ p_max = None
  /\ p_min = None
  /\ p_out = << >>
  /\ p_json = << >>
  /\ p_txt = << >>

Init == ProberInit /\ PipeIdle /\ AppIdle

\* tasks = [self.measure_speed(config, progress_callback) for config in
\* configs], and gather awaited: one task per config
launch(n, cb) ==
  /\ pc \in {"idle", "returned"}
  /\ configs' = [k \in 1..n |-> k]
  /\ callback' = cb
  /\ pc' = "gathering"
  /\ tpc' = [o \in Objs |-> IF o <= n THEN "start" ELSE "idle"]
  /\ latency' = [o \in Objs |-> 0]
  /\ io' = [o \in Objs |-> "none"]
  /\ how' = [o \in Objs |-> "none"]
  /\ tres' = [o \in Objs |-> Pending]
  /\ results' = << >>
  /\ writes' = [o \in Objs |-> [f \in Measured |-> 0]]
  /\ sink_calls' = [o \in Objs |-> 0]
  /\ conn' = [o \in Objs |-> "none"]
  /\ using' = [o \in Objs |-> NoSession]
  /\ session' = [o \in Objs |-> "none"]
  /\ target' = [o \in Objs |-> "none"]

\* check_servers called on descriptors the caller holds
check_servers_call(n, cb) == launch(n, cb) /\ UNCHANGED <<heap, pipe, app>>

\* the session left open: no `async with`, close() only on the success path
ExitSession_leak(i) == session

\* __aexit__ of `async with aiohttp.ClientSession(...) as session`
ExitSession(i) ==
  IF using[i] = NoSession THEN session
  ELSE [session EXCEPT ![using[i]] = "closed"]

\* a task leaves measure_speed by `return config`
Return(i, path, newheap) ==
  /\ heap' = newheap
  /\ tpc' = [tpc EXCEPT ![i] = "returned"]
  /\ io' = [io EXCEPT ![i] = "none"]
  /\ how' = [how EXCEPT ![i] = path]
  /\ tres' = [tres EXCEPT ![i] = configs[i]]
  /\ session' = ExitSession(i)
  /\ UNCHANGED <<configs, callback, pc, latency, results, using, target, pipe, app>>

\* a task leaves measure_speed with an exception no handler catches
Raise(i, path) ==
  /\ tpc' = [tpc EXCEPT ![i] = "raised"]
  /\ io' = [io EXCEPT ![i] = "none"]
  /\ how' = [how EXCEPT ![i] = path]
  /\ tres' = [tres EXCEPT ![i] = ExceptionResult]
  /\ session' = ExitSession(i)
  /\ UNCHANGED <<heap, configs, callback, pc, latency, results, writes,
                 using, target, pipe, app>>

\* a task suspends on an await whose peer will behave as b
Await(i, pos, b) ==
  /\ tpc' = [tpc EXCEPT ![i] = pos]
  /\ io' = [io EXCEPT ![i] = b]
  /\ UNCHANGED <<configs, callback, pc, how, tres, results, pipe, app>>

\* the status kept in one place shared by the whole batch
SetStatus_shared(i, s) == [o \in Objs |-> [heap[o] EXCEPT !.status = s]]

\* config.status = s
SetStatus(i, s) == [heap EXCEPT ![configs[i]].status = s]

\* the task's descriptor had the fields fs assigned once more
Assign(i, fs) ==
  writes' = [writes EXCEPT ![configs[i]] =
               [f \in Measured |-> IF f \in fs THEN @[f] + 1 ELSE @[f]]]

Running(i) == pc = "gathering" /\ i \in Tasks

\* the except clauses swapped: a deadline expiry lands in `except Exception`
OnTimeoutError_as_error(i, path) ==
  Return(i, path, SetStatus(i, "error")) /\ Assign(i, {"status"})

\* one deadline shared by the batch: its expiry cancels the tasks in flight
OnTimeoutError_cancels(i, path) ==
  /\ heap' = SetStatus(i, "timeout")
  /\ tpc' = [j \in Objs |-> IF j = i THEN "returned"
                            ELSE IF tpc[j] \in {"idle"} \cup Finished THEN tpc[j]
                            ELSE "raised"]
  /\ io' = [j \in Objs |-> IF j = i \/ tpc'[j] = "raised" THEN "none" ELSE io[j]]
  /\ how' = [j \in Objs |-> IF j = i THEN path
                            ELSE IF tpc'[j] # tpc[j] THEN "cancelled" ELSE how[j]]
  /\ tres' = [j \in Objs |-> IF j = i THEN configs[i]
                             ELSE IF tpc'[j] # tpc[j] THEN ExceptionResult ELSE tres[j]]
  /\ session' = [o \in Objs |-> IF session[o] = "open" THEN "closed" ELSE session[o]]
  /\ Assign(i, {"status"})
  /\ UNCHANGED <<configs, callback, pc, latency, results, using, target, pipe, app>>

\* except asyncio.TimeoutError: config.status = "timeout"
OnTimeoutError(i, path) ==
  Return(i, path, SetStatus(i, "timeout")) /\ Assign(i, {"status"})

\* except Exception: config.status = "error"
OnException(i, path) ==
  Return(i, path, SetStatus(i, "error")) /\ Assign(i, {"status"})

\* the status check left out: every response counts as a success
OnNon200_as_ok(i) ==
  Return(i, "non200", SetStatus(i, "ok")) /\ Assign(i, {"status"})

\* else branch of `if response.status == 200`
OnNon200(i) ==
  Return(i, "non200", SetStatus(i, "error")) /\ Assign(i, {"status"})

\* the early return without the status assignment
NotReachable_no_status(i, path) == Return(i, path, heap) /\ Assign(i, {})

\* check_latency returned (False, 0.0): status "unreachable", return config
NotReachable(i, path) ==
  Return(i, path, SetStatus(i, "unreachable")) /\ Assign(i, {"status"})

\* the call moved behind the latency check, or left out
CallSink_skipped(i) == sink_calls

\* progress_callback(f"...") for the task's descriptor
CallSink(i) == [sink_calls EXCEPT ![i] = @ + 1]

\* `if progress_callback:` and the call it guards
MaybeCallSink(i) ==
  sink_calls' = IF callback = "sink" THEN CallSink(i) ELSE sink_calls

\* the GET sent through the endpoint under test
GetTarget_via_endpoint(i) == ToString(heap[configs[i]].server)

\* session.get(self.test_url)
GetTarget(i) == test_url

\* aiohttp.ClientSession(connector=connector, timeout=timeout), one per call
NewSession(i) == i

\* measure_speed from its first line to the await in check_latency
ms_start(i) ==
  /\ Running(i) /\ tpc[i] = "start"
  /\ MaybeCallSink(i)
  /\ \/ /\ callback = "sink"            \* the sink raises an Exception
        /\ OnException(i, "sink_raised")
        /\ UNCHANGED conn
     \/ /\ callback = "sink"            \* the sink raises asyncio.TimeoutError
        /\ OnTimeoutError(i, "sink_timeout")
        /\ UNCHANGED conn
     \/ /\ callback = "sink"            \* the sink raises a BaseException
        /\ Raise(i, "sink_cancelled")
        /\ UNCHANGED conn
     \/ /\ \E b \in {"responds", "silent"} : Await(i, "connecting", b)
        /\ conn' = [conn EXCEPT ![i] = "opening"]
        /\ UNCHANGED <<heap, latency, writes, using, session, target>>

\* open_connection succeeded: latency taken, writer.close(), await wait_closed
cl_connected(i) ==
  /\ Running(i) /\ tpc[i] = "connecting" /\ io[i] = "responds"
  /\ \E l \in Latencies : latency' = [latency EXCEPT ![i] = l]
  /\ Await(i, "closing", "responds")
  /\ conn' = [conn EXCEPT ![i] = "closing"]
  /\ UNCHANGED <<heap, writes, sink_calls, using, session, target>>

\* open_connection raised (refused, DNS failure, ...)
cl_refused(i) ==
  /\ Running(i) /\ tpc[i] = "connecting" /\ io[i] = "responds"
  /\ NotReachable(i, "refused")
  /\ conn' = [conn EXCEPT ![i] = "failed"]
  /\ UNCHANGED sink_calls

\* open_connection awaited without wait_for: no deadline ever fires
cl_deadline_missing(i) == FALSE /\ UNCHANGED vars

\* asyncio.wait_for(..., timeout=self.timeout) expired
cl_deadline(i) ==
  /\ Running(i) /\ tpc[i] = "connecting" /\ io[i] = "silent"
  /\ NotReachable(i, "conn_timeout")
  /\ conn' = [conn EXCEPT ![i] = "failed"]
  /\ UNCHANGED sink_calls

\* wait_closed raised
cl_close_failed(i) ==
  /\ Running(i) /\ tpc[i] = "closing"
  /\ NotReachable(i, "close_failed")
  /\ conn' = [conn EXCEPT ![i] = "closed"]
  /\ UNCHANGED sink_calls

\* check_latency returned (True, latency); session opened, GET issued
cl_closed(i) ==
  /\ Running(i) /\ tpc[i] = "closing"
  /\ heap' = [heap EXCEPT ![configs[i]].latency_ms = latency[i]]
  /\ Assign(i, {"latency_ms"})
  /\ conn' = [conn EXCEPT ![i] = "closed"]
  /\ using' = [using EXCEPT ![i] = NewSession(i)]
  /\ session' = [session EXCEPT ![NewSession(i)] = "open"]
  /\ target' = [target EXCEPT ![i] = GetTarget(i)]
  /\ \E b \in {"responds", "silent"} : Await(i, "get", b)
  /\ UNCHANGED <<latency, sink_calls>>

\* the response arrived
ms_response(i) ==
  /\ Running(i) /\ tpc[i] = "get" /\ io[i] = "responds"
  /\ \/ /\ \E b \in {"responds", "silent"} : Await(i, "read", b)   \* 200
        /\ UNCHANGED <<heap, latency, writes, using, session, target>>
     \/ OnNon200(i)
  /\ UNCHANGED <<sink_calls, conn>>

\* ClientTimeout(total=self.timeout) expired in session.get or response.read
ms_timeout(i) ==
  /\ Running(i) /\ tpc[i] \in {"get", "read"} /\ io[i] = "silent"
  /\ OnTimeoutError(i, "http_timeout")
  /\ UNCHANGED <<sink_calls, conn>>

\* session.get or response.read raised something else
ms_exception(i) ==
  /\ Running(i) /\ tpc[i] \in {"get", "read"} /\ io[i] = "responds"
  /\ OnException(i, "http_failed")
  /\ UNCHANGED <<sink_calls, conn>>

\* the body was read
ms_read(i) ==
  /\ Running(i) /\ tpc[i] = "read" /\ io[i] = "responds"
  /\ \E p \in Payloads :
       IF p.elapsed = 0
         THEN OnException(i, "http_failed")      \* ZeroDivisionError
         ELSE /\ Return(i, "ok",
                   [heap EXCEPT ![configs[i]].speed_mbps = SpeedMbps(p.kib, p.elapsed),
                                ![configs[i]].status = "ok"])
              /\ Assign(i, {"speed_mbps", "status"})
  /\ UNCHANGED <<sink_calls, conn>>

\* a wait that resumes as soon as the first task completes
GatherFirstDone == \E i \in Tasks : tpc[i] \in Finished

\* asyncio.gather(*tasks, return_exceptions=True) resumes its awaiter
GatherDone == \A i \in Tasks : tpc[i] \in Finished

\* the list gather produces: one slot per task, in task order
GatherResults == [k \in Tasks |-> tres[k]]

\* isinstance(r, VLESSConfig)
IsConfig(r) == r \in Objs

\* the filter also dropping every descriptor that is not ok
valid_results_ok_only(rs) ==
  LET Keep(r) == IsConfig(r) /\ heap[r].status = "ok" IN SelectSeq(rs, Keep)

\* [r for r in results if isinstance(r, VLESSConfig)]
valid_results(rs) == SelectSeq(rs, IsConfig)

check_servers_return ==
  /\ pc = "gathering"
  /\ GatherDone
  /\ results' = valid_results(GatherResults)
  /\ pc' = "returned"
  /\ UNCHANGED <<heap, configs, callback, tpc, latency, io, how, tres,
                 writes, sink_calls, conn, using, session, target, pipe, app>>

TaskStep(i) ==
  \/ ms_start(i)
  \/ cl_connected(i)
  \/ cl_refused(i)
  \/ cl_deadline(i)
  \/ cl_close_failed(i)
  \/ cl_closed(i)
  \/ ms_response(i)
  \/ ms_timeout(i)
  \/ ms_exception(i)
  \/ ms_read(i)

Next ==
  \/ \E n \in 0..MaxConfigs, cb \in {"none", "sink"} : check_servers_call(n, cb)
  \/ \E i \in Objs : TaskStep(i)
  \/ check_servers_return

Spec == Init /\ [][Next]_vars

\* ------------------------------------------------------- result pipeline
\* Lists of results are sequences of records; `id` stands for the identity of
\* the VLESSConfig object, the other fields are those of the dataclass.
\* Strings that get written to a file are sequences of characters.

\* field values of the results the pipeline is tried on
Samples ==
  { [server |-> <<"h">>,       server_port |-> 443,  status |-> "ok",
     speed_mbps |-> 300, latency_ms |-> 50],
    [server |-> <<"h", "\"">>, server_port |-> 8443, status |-> "ok",
     speed_mbps |-> 100, latency_ms |-> 7],
    [server |-> <<"\\", "h">>, server_port |-> 1,    status |-> "ok",
     speed_mbps |-> 500, latency_ms |-> 120],
    [server |-> <<"h">>,       server_port |-> 80,   status |-> "ok",
     speed_mbps |-> 125, latency_ms |-> 50],
    [server |-> <<"h">>,       server_port |-> 443,  status |-> "error",
     speed_mbps |-> 0,   latency_ms |-> 0],
    [server |-> <<"h">>,       server_port |-> 443,  status |-> "unreachable",
     speed_mbps |-> 200, latency_ms |-> 50] }

\* the bounds filter_servers is tried with
MaxSpeeds == {None, 300, 500}
MinSpeeds == {None, 100, 300}

\* the k-th object of a list, with the fields start_check gives every config
Result(k, f) ==
  [id |-> k, server |-> f.server, server_port |-> f.server_port,
   uuid |-> <<"u">>, server_name |-> <<"s", "n">>, path |-> <<"/">>,
   speed_mbps |-> f.speed_mbps, latency_ms |-> f.latency_ms,
   status |-> f.status, tag |-> <<"T">>]

ResultLists ==
  UNION { { [k \in 1..n |-> Result(k, fs[k])] : fs \in [1..n -> Samples] }
          : n \in 0..MaxResults }

\* ascending sort reversed afterwards: equal keys come out in reverse
InsertByKey_ties_reversed(t, x) ==
  LET k == Cardinality({j \in 1..Len(t) : t[j].speed_mbps > x.speed_mbps})
  IN  SubSeq(t, 1, k) \o <<x>> \o SubSeq(t, k + 1, Len(t))

\* one step of the stable descending sort: x goes behind every element whose
\* key is not smaller
InsertByKey(t, x) ==
  LET k == Cardinality({j \in 1..Len(t) : t[j].speed_mbps >= x.speed_mbps})
  IN  SubSeq(t, 1, k) \o <<x>> \o SubSeq(t, k + 1, Len(t))

\* sort(key=lambda x: x.speed_mbps, reverse=True): stable, descending
RECURSIVE SortBySpeed(_)
SortBySpeed(rs) ==
  IF rs = << >> THEN << >>
  ELSE InsertByKey(SortBySpeed(SubSeq(rs, 1, Len(rs) - 1)), rs[Len(rs)])

IsOk(r) == r.status = "ok"

\* the upper bound taken as inclusive
BelowMax_inclusive(r, mx) == r.speed_mbps <= mx

\* r.speed_mbps < max_speed_mbps
BelowMax(r, mx) == r.speed_mbps < mx

\* r.speed_mbps > min_speed_mbps
AboveMin(r, mn) == r.speed_mbps > mn

filter_servers(rs, max_speed_mbps, min_speed_mbps) ==
  LET ok     == SelectSeq(rs, IsOk)
      KeepMax(r) == BelowMax(r, max_speed_mbps)
      capped == IF max_speed_mbps # None THEN SelectSeq(ok, KeepMax) ELSE ok
      KeepMin(r) == AboveMin(r, min_speed_mbps)
      floored == IF min_speed_mbps # None THEN SelectSeq(capped, KeepMin) ELSE capped
  IN  SortBySpeed(floored)

\* successful = [r for r in self.results if r.status == "ok"], then sorted
successful(rs) == SortBySpeed(SelectSeq(rs, IsOk))

\* the failed ones sorted by speed as well
failed_sorted(rs) ==
  LET NotOk(r) == r.status # "ok" IN SortBySpeed(SelectSeq(rs, NotOk))

\* failed = [r for r in self.results if r.status != "ok"]
failed(rs) == LET NotOk(r) == r.status # "ok" IN SelectSeq(rs, NotOk)

\* all_sorted = successful + failed
all_sorted(rs) == successful(rs) \o failed(rs)

\* the pipeline is handed a list and a pair of bounds
PipeInit ==
  /\ ProberInit
  /\ AppIdle
  /\ p_op = "none"
  /\ p_in \in ResultLists
  /\ p_max \in MaxSpeeds
  /\ p_min \in MinSpeeds
  /\ p_out = << >>
  /\ p_json = << >>
  /\ p_txt = << >>

\* filtered = filter_servers(results, max_speed, min_speed)
do_filter ==
  /\ p_op = "none"
  /\ p_out' = filter_servers(p_in, p_max, p_min)
  /\ p_op' = "filter"
  /\ UNCHANGED <<p_in, p_max, p_min, p_json, p_txt, prober, app>>

\* filter_servers applied to its own output, with the same bounds
do_filter_again ==
  /\ p_op = "filter"
  /\ p_in' = p_out
  /\ p_out' = filter_servers(p_out, p_max, p_min)
  /\ p_op' = "refilter"
  /\ UNCHANGED <<p_max, p_min, p_json, p_txt, prober, app>>

\* the ranking start_check hands to display_results
do_rank ==
  /\ p_op = "none"
  /\ p_out' = all_sorted(p_in)
  /\ p_op' = "rank"
  /\ UNCHANGED <<p_in, p_max, p_min, p_json, p_txt, prober, app>>

\* ---- what json.dump writes for a value, and what json.load reads back ----
DigitChars == <<"0", "1", "2", "3", "4", "5", "6", "7", "8", "9">>

DigitValue(c) == (CHOOSE d \in 1..10 : DigitChars[d] = c) - 1

\* the decimal digits of a natural number
RECURSIVE Digits(_)
Digits(n) ==
  IF n < 10 THEN <<DigitChars[n + 1]>>
  ELSE Digits(n \div 10) \o <<DigitChars[(n % 10) + 1]>>

\* the natural number a string of digits stands for
RECURSIVE ParseDigits(_)
ParseDigits(cs) ==
  IF Len(cs) = 0 THEN 0
  ELSE 10 * ParseDigits(SubSeq(cs, 1, Len(cs) - 1)) + DigitValue(cs[Len(cs)])

\* an int
JsonInt(n) == Digits(n)

ParseInt(cs) == ParseDigits(cs)

\* a float written with one decimal, as the text report writes the latency
FloatRepr_1f(h) ==
  Digits(h \div 100) \o <<".", DigitChars[((h % 100) \div 10) + 1]>>

\* float.__repr__ of h hundredths: the shortest text that reads back as h
FloatRepr(h) ==
  Digits(h \div 100) \o <<".">> \o
    ( IF h % 10 = 0 THEN <<DigitChars[((h % 100) \div 10) + 1]>>
      ELSE <<DigitChars[((h % 100) \div 10) + 1], DigitChars[(h % 10) + 1]>> )

\* float(text), in hundredths
ParseFloat(cs) ==
  LET dot  == CHOOSE k \in 1..Len(cs) : cs[k] = "."
      frac == SubSeq(cs, dot + 1, Len(cs))
  IN  100 * ParseDigits(SubSeq(cs, 1, dot - 1))
        + (IF Len(frac) = 1 THEN 10 * ParseDigits(frac) ELSE ParseDigits(frac))

\* the characters of a str, with quote and backslash escaped
RECURSIVE Escape(_)
Escape(cs) ==
  IF Len(cs) = 0 THEN << >>
  ELSE (IF Head(cs) \in {"\"", "\\"} THEN <<"\\", Head(cs)>> ELSE <<Head(cs)>>)
         \o Escape(Tail(cs))

RECURSIVE Unescape(_)
Unescape(cs) ==
  IF Len(cs) = 0 THEN << >>
  ELSE IF Head(cs) = "\\" THEN <<cs[2]>> \o Unescape(SubSeq(cs, 3, Len(cs)))
  ELSE <<Head(cs)>> \o Unescape(Tail(cs))

\* a str (ensure_ascii=False: every other character goes out as it is)
JsonString(cs) == <<"\"">> \o Escape(cs) \o <<"\"">>

ParseString(tok) == Unescape(SubSeq(tok, 2, Len(tok) - 1))

\* the words of the status field
StatusChars(st) ==
  CASE st = "unknown"     -> <<"u","n","k","n","o","w","n">>
    [] st = "ok"          -> <<"o","k">>
    [] st = "unreachable" -> <<"u","n","r","e","a","c","h","a","b","l","e">>
    [] st = "timeout"     -> <<"t","i","m","e","o","u","t">>
    [] st = "error"       -> <<"e","r","r","o","r">>

CharsStatus(cs) == CHOOSE st \in Statuses : StatusChars(st) = cs

\* asdict(r) as json.dump writes it
JsonRecord(r) ==
  [server      |-> JsonString(r.server),
   server_port |-> JsonInt(r.server_port),
   uuid        |-> JsonString(r.uuid),
   server_name |-> JsonString(r.server_name),
   path        |-> JsonString(r.path),
   speed_mbps  |-> FloatRepr(r.speed_mbps),
   latency_ms  |-> FloatRepr(100 * r.latency_ms),
   status      |-> JsonString(StatusChars(r.status)),
   tag         |-> JsonString(r.tag)]

\* the (address, port, status, throughput, latency) of a record read back
ParseRecord(j) ==
  [server      |-> ParseString(j.server),
   server_port |-> ParseInt(j.server_port),
   status      |-> CharsStatus(ParseString(j.status)),
   speed_mbps  |-> ParseFloat(j.speed_mbps),
   latency_ms  |-> ParseFloat(j.latency_ms) \div 100]

\* the numbering left at its default start
Enumerate_from_zero(rs, start) == [k \in 1..Len(rs) |-> <<k - 1, rs[k]>>]

\* enumerate(rs, start)
Enumerate(rs, start) == [k \in 1..Len(rs) |-> <<start + k - 1, rs[k]>>]

\* the block of the text report for the pair (i, r)
TxtBlock(ir) ==
  [rank    |-> ir[1],
   id      |-> ir[2].id,
   server  |-> ir[2].server \o <<":">> \o Digits(ir[2].server_port),
   speed   |-> FloatRepr(ir[2].speed_mbps),
   latency |-> FloatRepr_1f(100 * ir[2].latency_ms),
   status  |-> StatusChars(ir[2].status)]

\* save_results(results)
do_save ==
  /\ p_op = "none"
  /\ LET sorted_results == SortBySpeed(p_in)
         numbered == Enumerate(sorted_results, 1)
     IN  /\ p_json' = [k \in 1..Len(sorted_results) |-> JsonRecord(sorted_results[k])]
         /\ p_txt' = [k \in 1..Len(numbered) |-> TxtBlock(numbered[k])]
  /\ p_op' = "save"
  /\ UNCHANGED <<p_in, p_max, p_min, p_out, prober, app>>

\* json.load of the file save_results wrote
do_load ==
  /\ p_op = "save"
  /\ p_out' = [k \in 1..Len(p_json) |-> ParseRecord(p_json[k])]
  /\ p_op' = "load"
  /\ UNCHANGED <<p_in, p_max, p_min, p_json, p_txt, prober, app>>

PipeNext ==
  \/ do_filter
  \/ do_filter_again
  \/ do_rank
  \/ do_save
  \/ do_load

PipeSpec == PipeInit /\ [][PipeNext]_vars

\* One call of check_servers on freshly constructed descriptors, as start_check
\* makes it.  measure_speed reads none of the measured fields, so what an
\* earlier call left in them has no influence on the progress of this one.
first_call(n, cb) == pc = "idle" /\ check_servers_call(n, cb)

NextBatch ==
  \/ \E n \in 0..MaxConfigs, cb \in {"none", "sink"} : first_call(n, cb)
  \/ \E i \in Objs : TaskStep(i)
  \/ check_servers_return

\* The event loop runs every ready task and fires every armed timer.
BatchSpec ==
  /\ Init /\ [][NextBatch]_vars
  /\ \A i \in Objs : WF_vars(TaskStep(i))
  /\ WF_vars(check_servers_return)

\* ---------------------------------------------------------- text import
\* Texts are sequences of characters.

MaxLines == 3        \* most lines of an imported text

\* what str.strip() removes at both ends
Whitespace == {" ", "\t", "\r", "\n"}

RECURSIVE LStrip(_)
LStrip(cs) ==
  IF cs # << >> /\ Head(cs) \in Whitespace THEN LStrip(Tail(cs)) ELSE cs

RECURSIVE RStrip(_)
RStrip(cs) ==
  IF cs # << >> /\ cs[Len(cs)] \in Whitespace
    THEN RStrip(SubSeq(cs, 1, Len(cs) - 1))
    ELSE cs

\* str.strip()
Strip(cs) == RStrip(LStrip(cs))

\* `c in cs`
Contains(cs, c) == \E k \in 1..Len(cs) : cs[k] = c

\* cs.split(sep) for a one-character separator
RECURSIVE Split(_, _)
Split(cs, sep) ==
  IF ~Contains(cs, sep) THEN <<cs>>
  ELSE LET k == CHOOSE j \in 1..Len(cs) :
                  cs[j] = sep /\ \A h \in 1..(j - 1) : cs[h] # sep
       IN  <<SubSeq(cs, 1, k - 1)>> \o Split(SubSeq(cs, k + 1, Len(cs)), sep)

\* sep.join(parts)
RECURSIVE Join(_, _)
Join(parts, sep) ==
  IF parts = << >> THEN << >>
  ELSE IF Len(parts) = 1 THEN parts[1]
  ELSE parts[1] \o <<sep>> \o Join(Tail(parts), sep)

IsDigit(c) == \E d \in 1..10 : DigitChars[d] = c

\* int(text): surrounding whitespace, an optional sign, decimal digits;
\* anything else raises ValueError (ok = FALSE)
PyInt(cs) ==
  LET t      == Strip(cs)
      signed == t # << >> /\ t[1] \in {"+", "-"}
      ds     == IF signed THEN Tail(t) ELSE t
      ok     == ds # << >> /\ \A k \in 1..Len(ds) : IsDigit(ds[k])
  IN  IF ~ok THEN [ok |-> FALSE, val |-> 0]
      ELSE [ok |-> TRUE,
            val |-> IF signed /\ t[1] = "-" THEN 0 - ParseDigits(ds)
                    ELSE ParseDigits(ds)]

\* str(n) of an int
PyStr(n) == IF n < 0 THEN <<"-">> \o Digits(0 - n) ELSE Digits(n)

\* the loop given up at the first line that raises
OnValueError_abort(rest) == << >>

\* except ValueError: continue
OnValueError(rest) == rest

\* the body of `for line in ...`, over the lines still to come
RECURSIVE ParseLines(_)
ParseLines(ls) ==
  IF ls = << >> THEN << >>
  ELSE LET line == Strip(Head(ls))
           rest == ParseLines(Tail(ls))
       IN  IF line = << >> \/ ~Contains(line, ":") THEN rest
           ELSE LET fields == Split(line, ":")
                IN  IF Len(fields) # 2 THEN OnValueError(rest)
                    ELSE LET port == PyInt(Strip(fields[2]))
                         IN  IF ~port.ok THEN OnValueError(rest)
                             ELSE <<[ip |-> Strip(fields[1]), port |-> port.val]>>
                                    \o rest

\* parse_servers(text)
parse_servers(text) == ParseLines(Split(Strip(text), "\n"))

\* lines an imported file is written from
SampleLines ==
  { <<"a", ":", "4", "4", "3">>,
    <<" ", "b", " ", ":", " ", "8", "0", "\r">>,
    <<"b", "a", "d">>,
    << >>,
    <<" ", "\t">>,
    <<"a", ":", "x">>,
    <<"a", ":", "1", ":", "2">>,
    <<"a", ":">>,
    <<":", "8", "0">>,
    <<"a", ":", "1", " ", "2">>,
    <<"a", ":", "0">>,
    <<"a", ":", "-", "1">>,
    <<"a", ":", "7", "0", "0", "0", "0">> }

LineLists == UNION { [1..n -> SampleLines] : n \in 0..MaxLines }

\* a text file is picked in the fresh window
ParseInit ==
  /\ ProberInit
  /\ PipeIdle
  /\ \E ls \in LineLists :
       app = [NewApp EXCEPT !.lines = ls, !.content = Join(ls, "\n")]

\* '\n'.join(f"{ip}:{port}" for ip, port in servers)
ServersText(sv) ==
  Join([k \in 1..Len(sv) |-> sv[k].ip \o <<":">> \o PyStr(sv[k].port)], "\n")

\* on_txt_file_picked(e) with a file chosen
on_txt_file_picked ==
  /\ event = "none"
  /\ \/ LET sv == parse_servers(content)
        IN  app' = IF sv # << >>
                     THEN [app EXCEPT !.event = "on_txt_file_picked",
                                      !.servers = sv,
                                      !.servers_input = ServersText(sv),
                                      !.dialog = "loaded"]
                     ELSE [app EXCEPT !.event = "on_txt_file_picked",
                                      !.servers = sv,
                                      !.dialog = "nothing_found"]
     \/ app' = [app EXCEPT !.event = "on_txt_file_picked",   \* open or read raised
                          !.dialog = "load_failed"]
  /\ UNCHANGED <<prober, pipe>>

ParseNext == on_txt_file_picked

ParseSpec == ParseInit /\ [][ParseNext]_vars

\* ------------------------------------------------------------ start_check
\* float(text), in hundredths: surrounding whitespace, an optional sign,
\* digits with at most one "."; anything else raises ValueError (ok = FALSE)
PyFloat(cs) ==
  LET t      == Strip(cs)
      signed == t # << >> /\ t[1] \in {"+", "-"}
      body   == IF signed THEN Tail(t) ELSE t
      dots   == {k \in 1..Len(body) : body[k] = "."}
      ok     == /\ Cardinality(dots) <= 1
                /\ \A k \in 1..Len(body) : k \in dots \/ IsDigit(body[k])
                /\ \E k \in 1..Len(body) : IsDigit(body[k])
      dot    == IF dots = {} THEN Len(body) + 1 ELSE CHOOSE k \in dots : TRUE
      frac   == SubSeq(body, dot + 1, Len(body)) \o <<"0", "0">>
      abs    == 100 * ParseDigits(SubSeq(body, 1, dot - 1))
                  + ParseDigits(SubSeq(frac, 1, 2))
  IN  IF ~ok THEN [ok |-> FALSE, val |-> 0]
      ELSE [ok |-> TRUE, val |-> IF signed /\ t[1] = "-" THEN 0 - abs ELSE abs]

\* float(field.value) if field.value else None
OptionalFloat(cs) == IF cs # << >> THEN PyFloat(cs) ELSE [ok |-> TRUE, val |-> None]

\* what the user types into the IP:Port field
AppTexts ==
  { << >>,
    <<"b", "a", "d">>,
    <<"a", ":", "4", "4", "3">>,
    Join(<< <<"a", ":", "0">>, <<"b", "a", "d">>,
            <<" ", "b", " ", ":", " ", "8", "0", "\r">> >>, "\n") }

\* what the user types into the timeout field
TimeoutTexts == { <<"1", "0">>, <<"1", ".", "5">> }

\* what the user types into the upper speed bound field
SpeedTexts == { <<"1", ".", "5">>, << >>, <<"x">> }

\* the user retypes the fields while no batch is running
edit_inputs(text, t, mx) ==
  /\ ~check_btn /\ handler # "awaiting"
  /\ app' = [app EXCEPT !.servers_input = text, !.timeout_input = t,
                        !.max_speed_input = mx, !.event = "edit"]
  /\ UNCHANGED <<prober, pipe>>

\* close_dialog(dialog)
close_dialog ==
  /\ dialog # "none"
  /\ app' = [app EXCEPT !.dialog = "none", !.event = "close_dialog"]
  /\ UNCHANGED <<prober, pipe>>

\* the test left out: an empty list goes on to the prober
NoServers_never(sv) == FALSE

\* `if not servers:`
NoServers(sv) == sv = << >>

\* configs: one VLESSConfig per parsed pair, in the objects 1..len(servers)
NewConfigs(sv) ==
  [o \in Objs |->
     IF o <= Len(sv)
       THEN VLESSConfig(sv[o].ip, sv[o].port, <<"u">>, <<"s", "n">>, <<"/">>, Tag(o))
       ELSE heap[o]]

\* start_check(e) from the click to its first await; the window delivers a
\* click only while the button is enabled
start_check ==
  /\ ~check_btn /\ handler # "awaiting"
  /\ LET sv      == parse_servers(servers_input)
         clicked == [app EXCEPT !.event = "start_check", !.servers = sv]
         locked  == [clicked EXCEPT !.check_btn = TRUE, !.progress_bar = TRUE]
         timeout == PyInt(timeout_input)
     IN  IF NoServers(sv)
           THEN /\ app' = [clicked EXCEPT !.dialog = "error"]
                /\ UNCHANGED prober
           ELSE IF ~timeout.ok
             THEN /\ app' = [locked EXCEPT !.handler = "raised"]  \* int(): ValueError
                  /\ UNCHANGED prober
             ELSE /\ app' = [locked EXCEPT !.checker = timeout.val,
                                           !.handler = "awaiting"]
                  /\ heap' = NewConfigs(sv)
                  /\ launch(Len(sv), "sink")
  /\ UNCHANGED pipe

\* the records of the returned descriptors
ResultRecords(rs) ==
  [k \in 1..Len(rs) |-> [id |-> rs[k], status |-> heap[rs[k]].status,
                         speed_mbps |-> heap[rs[k]].speed_mbps]]

\* start_check from the return of check_servers to its end
start_check_resume ==
  /\ handler = "awaiting" /\ pc = "returned"
  /\ LET stored == [app EXCEPT !.app_results = results]
         ranked == all_sorted(ResultRecords(results))
     IN  app' =
           IF ~OptionalFloat(max_speed_input).ok \/ ~OptionalFloat(min_speed_input).ok
             THEN [stored EXCEPT !.handler = "raised"]      \* float(): ValueError
             ELSE [stored EXCEPT !.shown = [k \in 1..Len(ranked) |-> ranked[k].id],
                                 !.check_btn = FALSE,
                                 !.progress_bar = FALSE,
                                 !.save_all_btn = FALSE,
                                 !.save_filtered_btn = FALSE,
                                 !.handler = "idle"]
  /\ UNCHANGED <<prober, pipe>>

AppNext ==
  \/ \E text \in AppTexts, t \in TimeoutTexts, mx \in SpeedTexts :
       edit_inputs(text, t, mx)
  \/ close_dialog
  \/ start_check
  \/ \E i \in Objs : TaskStep(i)
  \/ check_servers_return
  \/ start_check_resume

\* The event loop runs every ready task, fires every armed timer and resumes
\* every coroutine whose await is done; the user is under no obligation.
AppSpec ==
  /\ Init /\ [][AppNext]_vars
  /\ \A i \in Objs : WF_vars(TaskStep(i))
  /\ WF_vars(check_servers_return)
  /\ WF_vars(start_check_resume)

\* ------------------------------------------------------------ properties
Terminal == {"ok", "unreachable", "timeout", "error"}

Cfg(i) == heap[configs[i]]

\* s is a subsequence of t
IsSubseq(s, t) ==
  \E f \in [1..Len(s) -> 1..Len(t)] :
    /\ \A k \in 1..Len(s) : s[k] = t[f[k]]
    /\ \A k, l \in 1..Len(s) : k < l => f[k] < f[l]

\* the exits of measure_speed that the network decides
ByNetwork == {"refused", "conn_timeout", "close_failed",
              "non200", "http_timeout", "http_failed", "ok"}

\* the exits reached after check_latency returned (True, latency)
AfterConnect == {"non200", "http_timeout", "http_failed", "ok"}

\* C1: the list check_servers returns is a subsequence of its input list, in
\* input order, and is the whole input list when no task left measure_speed
\* with an exception.
C1_InputOrder ==
  pc = "returned" =>
    /\ IsSubseq(results, configs)
    /\ (\A i \in Tasks : tpc[i] # "raised") => results = configs

C1_Witness ==
  /\ pc = "returned" /\ Len(configs) >= 2
  /\ tpc[1] = "raised" /\ Len(results) = Len(configs) - 1
  /\ Cfg(2).status # "ok"

\* C2: every descriptor in the returned list has a status among ok,
\* unreachable, timeout, error; unknown is never returned.
C2_TerminalStatus ==
  pc = "returned" =>
    \A k \in 1..Len(results) : heap[results[k]].status \in Terminal

C2_Witness ==
  /\ pc = "returned" /\ Len(results) >= 2
  /\ \E k \in 1..Len(results) : heap[results[k]].status = "unreachable"
  /\ \E k \in 1..Len(results) : heap[results[k]].status = "ok"

\* C3: the step in which one task fails (unreachable, timeout, error or an
\* escaping exception) changes nothing of any sibling task: not its position,
\* its pending operation, its result slot, nor its descriptor's fields.
C3_SiblingIsolation ==
  [][\A i \in Tasks :
       ( /\ tpc[i] \notin Finished
         /\ tpc'[i] \in Finished
         /\ \/ tpc'[i] = "raised"
            \/ heap'[configs[i]].status \in {"unreachable", "timeout", "error"} )
       => \A j \in Tasks \ {i} :
            /\ heap'[configs[j]] = heap[configs[j]]
            /\ tpc'[j] = tpc[j] /\ io'[j] = io[j]
            /\ how'[j] = how[j] /\ tres'[j] = tres[j]]_vars

C3_Witness ==
  /\ pc = "returned"
  /\ \E i, j \in Tasks :
       /\ how[i] = "http_timeout" /\ Cfg(i).status = "timeout"
       /\ how[j] = "ok" /\ Cfg(j).status = "ok" /\ Cfg(j).speed_mbps > 0

\* C4: when check_servers has returned, every task it launched has finished,
\* none has an operation pending, and every returned descriptor was returned
\* by its own finished task.
C4_ReturnsAfterAll ==
  pc = "returned" =>
    /\ \A i \in Tasks : tpc[i] \in Finished /\ io[i] = "none"
    /\ \A k \in 1..Len(results) :
         \E i \in Tasks : configs[i] = results[k] /\ tpc[i] = "returned"

C4_Witness ==
  /\ pc = "returned" /\ Len(configs) >= 2
  /\ how[1] = "ok" /\ how[2] = "conn_timeout"

\* C5 as stated: a deadline expiry in any phase, the connection step
\* included, ends in status timeout.
C5_DeadlineAlwaysTimeout ==
  \A i \in Tasks :
    (tpc[i] = "returned" /\ how[i] \in {"conn_timeout", "http_timeout"})
      => Cfg(i).status = "timeout"

\* C5 amended: a deadline expiry during the GET or the body read ends in
\* status timeout; a deadline expiry during the connection step ends in
\* status unreachable.
C5_DeadlineStatus ==
  \A i \in Tasks :
    /\ (tpc[i] = "returned" /\ how[i] = "http_timeout") => Cfg(i).status = "timeout"
    /\ (tpc[i] = "returned" /\ how[i] = "conn_timeout") => Cfg(i).status = "unreachable"

C5_Witness ==
  \E i, j \in Tasks :
    /\ tpc[i] = "returned" /\ how[i] = "http_timeout"
    /\ tpc[j] = "returned" /\ how[j] = "conn_timeout"

\* C6: when check_latency reports unreachable the descriptor is returned with
\* status unreachable, latency 0 and throughput 0, and a GET is pending only
\* for a task whose connection check succeeded.
C6_UnreachableZero ==
  \A i \in Tasks :
    /\ (tpc[i] = "returned" /\ how[i] \in {"refused", "conn_timeout", "close_failed"})
         => /\ Cfg(i).status = "unreachable"
            /\ Cfg(i).latency_ms = 0
            /\ Cfg(i).speed_mbps = 0
    /\ tpc[i] \in {"get", "read"} => latency[i] \in Latencies

\* C7: the sink never ends or alters a probe: every finished task ran its
\* connection check and left by an exit that the network decided.
C7_SinkCannotAlterProbe ==
  \A i \in Tasks : tpc[i] \in Finished => how[i] \in ByNetwork

\* C8: after check_servers the measured fields of a returned descriptor come
\* from this call alone: latency is this call's measurement (0 when the
\* connection check failed) and throughput is 0 unless this call ended ok.
C8_FreshFields ==
  pc = "returned" =>
    \A i \in Tasks :
      tpc[i] = "returned" =>
        /\ Cfg(i).latency_ms = (IF how[i] \in AfterConnect THEN latency[i] ELSE 0)
        /\ how[i] # "ok" => Cfg(i).speed_mbps = 0

\* C9: under fair scheduling every started task finishes and every call of
\* check_servers returns, whatever the peers do.
C9_BatchCompletes ==
  /\ (pc = "gathering") ~> (pc = "returned")
  /\ \A i \in Objs : (tpc[i] = "start") ~> (tpc[i] \in Finished)

C9_Witness ==
  /\ pc = "returned"
  /\ \E i, j \in Tasks : how[i] = "conn_timeout" /\ how[j] = "http_timeout"

\* C10: a returned descriptor is ok exactly when its connection check
\* succeeded, the GET answered 200 and the body was read with neither deadline
\* expiry nor exception; a non-200 answer and any other exception of the
\* throughput phase give error.
C10_OkIff ==
  \A i \in Tasks :
    tpc[i] = "returned" =>
      /\ Cfg(i).status = "ok" <=> how[i] = "ok"
      /\ how[i] \in {"non200", "http_failed"} => Cfg(i).status = "error"

C10_Witness ==
  \E i, j, k \in Tasks :
    /\ tpc[i] = "returned" /\ how[i] = "ok" /\ Cfg(i).status = "ok"
    /\ tpc[j] = "returned" /\ how[j] = "non200" /\ Cfg(j).status = "error"

\* C11: in one call every descriptor of the batch has its status assigned
\* exactly once, moving it to a terminal value, and its latency and its
\* throughput assigned at most once each.
C11_WrittenOnce ==
  /\ \A o \in Objs : \A f \in Measured : writes[o][f] <= 1
  /\ pc = "returned" =>
       \A i \in Tasks : /\ writes[configs[i]]["status"] = 1
                        /\ Cfg(i).status \in Terminal

\* C12: a finished task has left neither its raw connection nor its HTTP
\* session open, and no session is used by two tasks.
C12_ConnectionsClosed ==
  /\ \A i \in Tasks :
       tpc[i] \in Finished =>
         /\ conn[i] \in {"none", "failed", "closed"}
         /\ using[i] # NoSession => session[using[i]] = "closed"
  /\ \A i, j \in Tasks :
       (i # j /\ using[i] # NoSession) => using[i] # using[j]

C12_Witness ==
  /\ pc = "returned"
  /\ \E i, j \in Tasks :
       /\ how[i] = "http_timeout" /\ conn[i] = "closed"
       /\ using[i] # NoSession /\ session[using[i]] = "closed"
       /\ how[j] = "ok" /\ using[j] # NoSession /\ session[using[j]] = "closed"

C20_SinkOncePerDescriptor ==
  callback = "sink" =>
    /\ \A i \in Tasks :
         /\ sink_calls[i] <= 1
         /\ conn[i] # "none" => sink_calls[i] = 1
         /\ tpc[i] \in Finished => sink_calls[i] = 1
    /\ \A o \in Objs \ Tasks : sink_calls[o] = 0

C20_Witness ==
  /\ callback = "sink" /\ pc = "returned"
  /\ \E i, j \in Tasks :
       /\ how[i] = "ok" /\ sink_calls[i] = 1
       /\ how[j] = "sink_raised" /\ sink_calls[j] = 1

\* the position of the object `id` in the list s
PosOf(s, id) == CHOOSE k \in 1..Len(s) : s[k].id = id

\* the objects of a list
Elems(s) == {s[k] : k \in 1..Len(s)}

\* no object occurs twice in s
NoRepeat(s) == \A k, l \in 1..Len(s) : s[k].id = s[l].id => k = l

\* s holds its elements in non-increasing order of speed_mbps
NonIncreasing(s) ==
  \A k, l \in 1..Len(s) : k < l => s[k].speed_mbps >= s[l].speed_mbps

\* r lies strictly inside the bounds that are given
Inside(r, mx, mn) ==
  /\ mx # None => r.speed_mbps < mx
  /\ mn # None => r.speed_mbps > mn

\* C13: filter_servers returns exactly the ok entries of its input that lie
\* strictly inside the given bounds, each once.
C13_FilterExclusive ==
  p_op \in {"filter", "refilter"} =>
    /\ \A r \in Elems(p_out) :
         r \in Elems(p_in) /\ r.status = "ok" /\ Inside(r, p_max, p_min)
    /\ \A r \in Elems(p_in) :
         (r.status = "ok" /\ Inside(r, p_max, p_min)) => r \in Elems(p_out)
    /\ NoRepeat(p_out)

\* throughputs 1.0, 3.0, 5.0 with min 1.0 and max 5.0 give just 3.0
C13_Witness ==
  /\ p_op = "filter" /\ p_min = 100 /\ p_max = 500
  /\ Len(p_in) = 3
  /\ {r.speed_mbps : r \in Elems(p_in)} = {100, 300, 500}
  /\ \A r \in Elems(p_in) : r.status = "ok"
  /\ Len(p_out) = 1 /\ p_out[1].speed_mbps = 300

\* C14: the output of filter_servers is in non-increasing order of
\* throughput, and entries of equal throughput are in their input order.
C14_FilterSorted ==
  p_op \in {"filter", "refilter"} =>
    /\ NonIncreasing(p_out)
    /\ \A k, l \in 1..Len(p_out) :
         (k < l /\ p_out[k].speed_mbps = p_out[l].speed_mbps)
           => PosOf(p_in, p_out[k].id) < PosOf(p_in, p_out[l].id)

C14_Witness ==
  /\ p_op = "filter" /\ Len(p_out) = 3
  /\ p_out[1].speed_mbps > p_out[2].speed_mbps
  /\ p_out[2].speed_mbps = p_out[3].speed_mbps
  /\ p_out[1].id > p_out[2].id

\* C15: filter_servers applied to its own output with the same bounds returns
\* that list unchanged, in the same order.
C15_FilterIdempotent ==
  p_op = "refilter" => p_out = p_in

C15_Witness ==
  /\ p_op = "refilter" /\ p_max # None /\ p_min # None
  /\ Len(p_out) >= 2
  /\ p_out[1].speed_mbps = p_out[2].speed_mbps

\* C16: the display ranking is a permutation of the results in which every ok
\* entry precedes every other entry, the ok entries are in non-increasing
\* order of throughput and the others keep their relative order.
C16_Ranking ==
  p_op = "rank" =>
    /\ Len(p_out) = Len(p_in) /\ Elems(p_out) = Elems(p_in)
    /\ \A k, l \in 1..Len(p_out) :
         /\ (p_out[k].status = "ok" /\ p_out[l].status # "ok") => k < l
         /\ (k < l /\ p_out[k].status = "ok" /\ p_out[l].status = "ok")
              => p_out[k].speed_mbps >= p_out[l].speed_mbps
         /\ (k < l /\ p_out[k].status # "ok" /\ p_out[l].status # "ok")
              => PosOf(p_in, p_out[k].id) < PosOf(p_in, p_out[l].id)

\* one ok entry behind two failed ones, the later of which has the higher
\* (left over) throughput
C16_Witness ==
  /\ p_op = "rank" /\ Len(p_in) = 3
  /\ p_in[1].status = "error" /\ p_in[2].status = "unreachable"
  /\ p_in[3].status = "ok"
  /\ p_out[1].id = 3 /\ p_out[2].id = 1 /\ p_out[3].id = 2

\* the orderings of the positions of a list of length n
Perms(n) == {f \in [1..n -> 1..n] : \A k, l \in 1..n : f[k] = f[l] => k = l}

\* the (address, port, status, throughput, latency) of a result
TupleOf(r) ==
  [server |-> r.server, server_port |-> r.server_port, status |-> r.status,
   speed_mbps |-> r.speed_mbps, latency_ms |-> r.latency_ms]

\* C17: save_results writes one record and one block per entry, both in one
\* order of non-increasing throughput (so zero throughput comes last), and
\* the rank printed in a block is its 1-based position.
C17_SaveSorted ==
  p_op \in {"save", "load"} =>
    /\ Len(p_json) = Len(p_in) /\ Len(p_txt) = Len(p_in)
    /\ \E f \in Perms(Len(p_in)) :
         /\ \A k \in 1..Len(p_in) :
              /\ p_json[k] = JsonRecord(p_in[f[k]])
              /\ p_txt[k].id = p_in[f[k]].id
              /\ p_txt[k].rank = k
         /\ \A k, l \in 1..Len(p_in) :
              k < l => p_in[f[k]].speed_mbps >= p_in[f[l]].speed_mbps

C17_Witness ==
  /\ p_op = "save" /\ Len(p_in) = 3
  /\ p_in[1].speed_mbps = 0 /\ p_in[2].speed_mbps > 0
  /\ p_in[3].speed_mbps > p_in[2].speed_mbps
  /\ p_txt[1].id = 3 /\ p_txt[1].rank = 1
  /\ p_txt[3].id = 1 /\ p_txt[3].rank = 3

\* C18: the records read back from the structured file are the
\* (address, port, status, throughput, latency) tuples of the input, each as
\* often as in the input, in an order of non-increasing throughput.
C18_RoundTrip ==
  p_op = "load" =>
    /\ Len(p_out) = Len(p_in)
    /\ \E f \in Perms(Len(p_in)) :
         /\ \A k \in 1..Len(p_in) : p_out[k] = TupleOf(p_in[f[k]])
         /\ \A k, l \in 1..Len(p_in) :
              k < l => p_in[f[k]].speed_mbps >= p_in[f[l]].speed_mbps

C18_Witness ==
  /\ p_op = "load" /\ Len(p_in) = 3
  /\ p_in[1].speed_mbps = 125 /\ p_in[2].server = <<"h", "\"">>
  /\ p_in[3].server = <<"\\", "h">>
  /\ p_out[1].server = <<"\\", "h">> /\ p_out[2].speed_mbps = 125
  /\ p_out[3].server = <<"h", "\"">> /\ p_out[3].server_port = 8443

\* the one ":" of a stripped line, 0 when it has none or several
ColonOf(t) ==
  IF Cardinality({k \in 1..Len(t) : t[k] = ":"}) = 1
    THEN CHOOSE k \in 1..Len(t) : t[k] = ":"
    ELSE 0

\* the line is an address and an integer port separated by ":"
IsEndpointLine(l) ==
  LET t == Strip(l)
  IN  /\ ColonOf(t) # 0
      /\ PyInt(SubSeq(t, ColonOf(t) + 1, Len(t))).ok

\* the (address, port) pair such a line stands for
EndpointOf(l) ==
  LET t == Strip(l)
  IN  [ip   |-> Strip(SubSeq(t, 1, ColonOf(t) - 1)),
       port |-> PyInt(SubSeq(t, ColonOf(t) + 1, Len(t))).val]

\* C21: parse_servers returns, in input order, exactly one (address, port)
\* pair for each line that is an address and an integer port separated by
\* ":", and skips every other line without losing the valid lines around it.
C21_ParseSkipsMalformed ==
  (event = "on_txt_file_picked" /\ dialog # "load_failed") =>
    LET good == SelectSeq(lines, IsEndpointLine)
    IN  servers = [k \in 1..Len(good) |-> EndpointOf(good[k])]

C21_Witness ==
  /\ event = "on_txt_file_picked" /\ Len(lines) = 3
  /\ lines[1] = <<"a", ":", "4", "4", "3">>
  /\ lines[2] = <<"a", ":", "x">>
  /\ lines[3] = <<" ", "b", " ", ":", " ", "8", "0", "\r">>
  /\ servers = << [ip |-> <<"a">>, port |-> 443], [ip |-> <<"b">>, port |-> 80] >>
  /\ dialog = "loaded"

\* C22: every descriptor that reaches the prober has a port in 1..65535.
C22_PortInRange ==
  \A i \in Tasks : Cfg(i).server_port \in 1..65535

\* C23: when parsing yields no endpoints, start_check reports an error and
\* launches no probe task, creates no checker, and leaves the stored results,
\* the check button, the progress bar and the save buttons as they were.
C23_EmptyListRejected ==
  [][ ( /\ event' = "start_check"
        /\ handler # "awaiting"
        /\ parse_servers(servers_input) = << >> )
      => /\ dialog' = "error"
         /\ UNCHANGED <<prober, checker, app_results, check_btn, progress_bar,
                        save_all_btn, save_filtered_btn, shown>> ]_vars

C23_Witness ==
  /\ event = "start_check" /\ dialog = "error"
  /\ servers_input = <<"b", "a", "d">> /\ servers = << >>
  /\ pc = "returned" /\ Len(app_results) = 2 /\ checker = 10
  /\ ~check_btn /\ ~save_all_btn /\ ~save_filtered_btn

\* C26: the check button is disabled exactly while a batch started by
\* start_check is in flight, and whenever it is disabled it is eventually
\* enabled again with the progress bar hidden.
C26_ButtonReenabled ==
  /\ [](check_btn <=> handler = "awaiting")
  /\ check_btn ~> (~check_btn /\ ~progress_bar)

\* C24: a step of probing leaves server, server_port, uuid, server_name, path
\* and tag of every descriptor as they were, and a descriptor's fields change
\* only in a step of its own task, in which no other task moves.
C24_ProbeFrame ==
  [][ \A o \in Objs :
        heap'[o] # heap[o] =>
          /\ \A f \in Identity : heap'[o][f] = heap[o][f]
          /\ \E i \in Tasks :
               /\ configs[i] = o
               /\ tpc[i] \notin Finished /\ tpc'[i] # tpc[i]
               /\ \A j \in Tasks \ {i} : tpc'[j] = tpc[j] ]_vars

C24_Witness ==
  /\ pc = "returned" /\ Len(configs) >= 2
  /\ how[1] = "non200" /\ how[2] = "refused"
  /\ Cfg(1).status = "error" /\ Cfg(2).status = "unreachable"
  /\ Cfg(1).latency_ms # Cfg(2).latency_ms
  /\ \A i \in Tasks : \A f \in Identity : Cfg(i)[f] = Descriptor(configs[i])[f]

\* C25: of a batch entered with fresh measured fields, every returned
\* descriptor has throughput 0 unless its status is ok, latency 0 when its
\* status is unreachable, and, when its status is ok, timeout or an error of
\* the throughput phase, the latency its own connection check measured in this
\* call.
C25_FreshInvariants ==
  pc = "returned" =>
    \A i \in Tasks :
      tpc[i] = "returned" =>
        /\ Cfg(i).status # "ok" => Cfg(i).speed_mbps = 0
        /\ Cfg(i).status = "unreachable" => Cfg(i).latency_ms = 0
        /\ ( \/ Cfg(i).status \in {"ok", "timeout"}
             \/ (Cfg(i).status = "error" /\ how[i] \in AfterConnect) )
           => /\ how[i] \in AfterConnect
              /\ latency[i] \in Latencies
              /\ Cfg(i).latency_ms = latency[i]

====
